---------------------------- MODULE Spec2Model ----------------------------
(***************************************************************************)
(* A model of bin/ws.mjs: the Channel (one WebSocket connection), its      *)
(* send pump, its frame dispatch, and the Server's table of channels.      *)
(*                                                                         *)
(* A Channel is a record holding the fields of the class together with     *)
(* the part of the world its methods act on: the socket (the writes handed *)
(* to it, the writes whose completion callback has not fired, the number   *)
(* of end() calls), the emitter (the events emitted, whether listeners are *)
(* attached) and the promise jobs of its suspended sendNext() calls.       *)
(* Every method is an operator from a Channel to a Channel.                *)
(*                                                                         *)
(* The Server is a record of its channels Map, in insertion order, with    *)
(* the position of a running close().  The functions encode, pack and      *)
(* unpack are operators on byte sequences; integers wider than 31 bits     *)
(* are held as big-endian magnitudes, floats as their eight bytes.         *)
(***************************************************************************)
EXTENDS Integers, Sequences, FiniteSets, TLC

\* ------------------------------------------------------------- bounds

\* Send calls made on a channel in one behaviour of SpecSend.
MaxSends == 3
\* Frames delivered to a channel in one behaviour of SpecRecv.
MaxFrames == 3
\* Requests handled by a server in one behaviour of SpecServer.
MaxRequests == 3
\* Length of the messages given to encode in SpecEncode.
MaxLen == 3
\* Number of arguments given to pack in SpecPack.
MaxArgs == 2
\* Number of elements of the typed arrays given to pack in SpecPackArray.
MaxElems == 2

\* ---------------------------------------------------------- constants

\* Number.MAX_SAFE_INTEGER is 2^53 - 1; the model holds it as the largest
\* integer TLC represents, which no payload length of the model reaches.
MaxSafeInteger == 2147483647

\* ------------------------------------------------------------ helpers

Min(a, b) == IF a < b THEN a ELSE b

Front(s) == SubSeq(s, 1, Len(s) - 1)

Last(s) == s[Len(s)]

DropFirst(s, n) == SubSeq(s, n + 1, Len(s))

RECURSIVE Flatten(_)
Flatten(ss) == IF ss = <<>> THEN <<>> ELSE Head(ss) \o Flatten(Tail(ss))

RECURSIVE SelectSeqBy(_, _)
\* The elements of s whose index is in the set idx, in order.
SelectSeqBy(s, idx) ==
    IF s = <<>> THEN <<>>
    ELSE SelectSeqBy(Front(s), idx) \o (IF Len(s) \in idx THEN <<Last(s)>> ELSE <<>>)

\* clamp(n, min, max) of alhadis.utils.
Clamp(n, lo, hi) == IF n < lo THEN lo ELSE IF n > hi THEN hi ELSE n

\* ----------------------------------------------------- UTF-8 (strings)
\* A string is a sequence of code points below 2048, its UTF-8 form a
\* sequence of bytes.  The library names the two directions from the
\* string's side: utf8Decode(string) gives bytes, utf8Encode(bytes) a string.

Replacement == 65533

Utf8DecodeOne(cp) ==
    IF cp < 128 THEN <<cp>> ELSE <<192 + (cp \div 64), 128 + (cp % 64)>>

RECURSIVE Utf8Decode(_)
Utf8Decode(str) ==
    IF str = <<>> THEN <<>> ELSE Utf8DecodeOne(Head(str)) \o Utf8Decode(Tail(str))

RECURSIVE Utf8Encode(_)
Utf8Encode(bytes) ==
    IF bytes = <<>> THEN <<>>
    ELSE IF bytes[1] < 128 THEN <<bytes[1]>> \o Utf8Encode(Tail(bytes))
    ELSE IF /\ bytes[1] \in 192..223
            /\ Len(bytes) >= 2
            /\ bytes[2] \in 128..191
         THEN <<(bytes[1] - 192) * 64 + (bytes[2] - 128)>> \o Utf8Encode(DropFirst(bytes, 2))
    ELSE <<Replacement>> \o Utf8Encode(Tail(bytes))

\* ------------------------------------------------------------- frames
\* A frame on the wire: the FIN bit and the opcode in the first byte, the
\* payload length (below 126) in the second, then the payload.

WsEncodeFrame(f) ==
    <<(IF f.isFinal THEN 128 ELSE 0) + f.opcode, Len(f.payload)>> \o f.payload

Opname(opcode) ==
    CASE opcode = 0  -> "continue"
      [] opcode = 1  -> "text"
      [] opcode = 2  -> "binary"
      [] opcode = 8  -> "close"
      [] opcode = 9  -> "ping"
      [] opcode = 10 -> "pong"
      [] OTHER       -> "reserved"

\* The frame at the head of data: `length' is the payload length the header
\* announces, `payload' the bytes of it that data holds, `trailer' the rest.
WsDecodeFrame(data) ==
    IF Len(data) < 2
    THEN [opcode |-> 0, opname |-> "continue", isFinal |-> FALSE, length |-> 1,
          payload |-> <<>>, trailer |-> <<>>]
    ELSE LET n == data[2]
             have == Min(n, Len(data) - 2)
         IN [opcode  |-> data[1] % 128,
             opname  |-> Opname(data[1] % 128),
             isFinal |-> data[1] >= 128,
             length  |-> n,
             payload |-> SubSeq(data, 3, 2 + have),
             trailer |-> DropFirst(data, 2 + have)]

RECURSIVE Decode(_)
\* decode(data): the complete frames at the head of data and what follows.
Decode(data) ==
    LET frame == WsDecodeFrame(data)
    IN IF Len(frame.payload) < frame.length
       THEN [frames |-> <<>>, trailer |-> data]
       ELSE IF Len(frame.trailer) > 0
            THEN LET rest == Decode(frame.trailer)
                 IN [frames  |-> <<[frame EXCEPT !.trailer = <<>>]>> \o rest.frames,
                     trailer |-> rest.trailer]
            ELSE [frames |-> <<[frame EXCEPT !.trailer = <<>>]>>, trailer |-> <<>>]

RECURSIVE EncodeFramesSameOpcode(_, _, _)
\* An encode that repeats the first frame's opcode on the later frames.
EncodeFramesSameOpcode(data, maxSize, opcode) ==
    LET n    == Min(maxSize, Len(data))
        rest == DropFirst(data, n)
        this == WsEncodeFrame([payload |-> SubSeq(data, 1, n),
                               isFinal |-> rest = <<>>,
                               opcode  |-> opcode])
    IN IF Len(rest) > 0
       THEN <<this>> \o EncodeFramesSameOpcode(rest, maxSize, opcode)
       ELSE <<this>>

RECURSIVE EncodeFrames(_, _, _)
\* The do-while of encode(): one frame of at most maxSize bytes per round.
EncodeFrames(data, maxSize, opcode) ==
    LET n    == Min(maxSize, Len(data))
        rest == DropFirst(data, n)
        this == WsEncodeFrame([payload |-> SubSeq(data, 1, n),
                               isFinal |-> rest = <<>>,
                               opcode  |-> opcode])
    IN IF Len(rest) > 0 THEN <<this>> \o EncodeFrames(rest, maxSize, 0) ELSE <<this>>

\* encode(data, maxSize): data is a string or a sequence of bytes.
Encode(data, maxSize) ==
    IF data.type = "string"
    THEN EncodeFrames(Utf8Decode(data.content), maxSize, 1)
    ELSE EncodeFrames(data.content, maxSize, 2)

\* ------------------------------------------------------------ channel

NoCode == -1

\* An observation: the event's name and its arguments.
Ev(name, data, type, code) == [name |-> name, data |-> data, type |-> type, code |-> code]

\* new Channel(socket).  `listeners' says whether any listener is attached
\* to the channel, `owned' whether Server.upgrade created it.
NewChannel(owned) ==
    [closed        |-> FALSE,
     maxSize       |-> MaxSafeInteger,
     sendPromise   |-> 0,
     frameBuffer   |-> <<>>,
     inputBuffer   |-> <<>>,
     inputPending  |-> FALSE,
     inputType     |-> "binary",
     outputBuffer  |-> <<>>,
     id            |-> 0,
     owned         |-> owned,
     listeners     |-> ~owned,
     emitted       |-> <<>>,
     written       |-> <<>>,
     inflight      |-> <<>>,
     ended         |-> 0,
     microtasks    |-> <<>>,
     waiters       |-> <<>>]

\* socket.write(frame[, null, callback]): promise is the promise the callback
\* resolves, 0 when the write has no callback.
SocketWrite(c, frame, promise) ==
    [c EXCEPT !.written  = Append(@, [frame |-> frame, promise |-> promise]),
              !.inflight = Append(@, promise)]

\* emit(event): the Server's once("ws:close") listener detaches every
\* listener of a channel it owns.
Emit(c, ev) ==
    [c EXCEPT !.emitted   = Append(@, ev),
              !.listeners = IF ev.name = "close" /\ c.owned THEN FALSE ELSE @]

SetMaxSize(c, to) == [c EXCEPT !.maxSize = Clamp(to, 1, MaxSafeInteger)]

\* A close payload with the code's low byte first.
ClosePayloadSwapped(code, reason) ==
    IF code # 0
    THEN <<code % 256, (code \div 256) % 256>> \o Utf8Decode(reason)
    ELSE <<>>

\* The payload of the close frame close(code, reason) writes.
ClosePayload(code, reason) ==
    IF code # 0
    THEN <<(code \div 256) % 256, code % 256>> \o Utf8Decode(reason)
    ELSE <<>>

\* A close() without its guard.
CloseAgain(c, code, reason) ==
    LET c1 == [c EXCEPT !.closed = TRUE]
        c2 == SocketWrite(c1, WsEncodeFrame([opcode |-> 8, isFinal |-> TRUE,
                                             payload |-> <<>>]), 0)
    IN [Emit(c2, Ev("close", reason, "", code)) EXCEPT !.ended = @ + 1]

Close(c, code, reason) ==
    IF c.closed THEN c
    ELSE LET c1 == [c EXCEPT !.closed = TRUE]
             c2 == SocketWrite(c1, WsEncodeFrame([opcode |-> 8, isFinal |-> TRUE,
                                                  payload |-> ClosePayload(code, reason)]), 0)
             c3 == Emit(c2, Ev("close", reason, "", code))
         IN [c3 EXCEPT !.ended = @ + 1]

\* emit(event) with a listener of the application that may call close()
\* from inside it: h names the event whose listener does.
EmitH(c, ev, h) ==
    IF c.listeners /\ h = ev.name THEN Close(Emit(c, ev), 1000, <<>>) ELSE Emit(c, ev)

Ping(c) ==
    IF c.closed THEN c
    ELSE SocketWrite(c, WsEncodeFrame([isFinal |-> TRUE, opcode |-> 9, payload |-> <<>>]), 0)

\* A pong() that waits in the data queue.
PongQueued(c) ==
    IF c.closed THEN c
    ELSE [c EXCEPT !.outputBuffer =
             Append(@, WsEncodeFrame([isFinal |-> TRUE, opcode |-> 10, payload |-> <<>>]))]

Pong(c) ==
    IF c.closed THEN c
    ELSE SocketWrite(c, WsEncodeFrame([isFinal |-> TRUE, opcode |-> 10, payload |-> <<>>]), 0)

\* ---------------------------------------------------------- send pump

\* `await promise': the continuation pc runs as a promise job, at once when
\* the promise is null or settled, and after it settles otherwise.
Pending(c) == {c.inflight[i] : i \in 1..Len(c.inflight)} \ {0}

Await(c, promise, pc) ==
    IF promise \in Pending(c)
    THEN [c EXCEPT !.waiters = Append(@, [promise |-> promise, pc |-> pc])]
    ELSE [c EXCEPT !.microtasks = Append(@, pc)]

\* A pump that takes the newest frame instead of the oldest.
ShiftNewest(buf) == [frame |-> Last(buf), rest |-> Front(buf)]

\* outputBuffer.shift()
Shift(buf) == [frame |-> Head(buf), rest |-> Tail(buf)]

\* sendNext() up to its first await.
SendNext(c) ==
    IF c.closed THEN c ELSE Await(c, c.sendPromise, "shift")

\* sendNext() from its first await to its second.
SendNextShift(c) ==
    IF c.outputBuffer = <<>> THEN c
    ELSE LET s  == Shift(c.outputBuffer)
             p  == Len(c.written) + 1
             c1 == [c EXCEPT !.outputBuffer = s.rest, !.sendPromise = p]
         IN Await(SocketWrite(c1, s.frame, p), p, "tail")

\* A sendNext() that ends after its write whatever is still queued.
SendNextOnce(c) == c

\* sendNext() after its second await.
SendNextTail(c) ==
    IF Len(c.outputBuffer) > 0 THEN SendNext(c) ELSE c

\* The promise job at the head of the queue runs.
RunMicrotask(c) ==
    LET c1 == [c EXCEPT !.microtasks = Tail(@)]
    IN IF Head(c.microtasks) = "shift" THEN SendNextShift(c1) ELSE SendNextTail(c1)

\* The socket finishes its oldest write and calls the write's callback,
\* which settles the promise: the jobs awaiting it are queued in order.
WriteDone(c) ==
    LET p    == Head(c.inflight)
        woke == {i \in 1..Len(c.waiters) : c.waiters[i].promise = p /\ p # 0}
        rest == (1..Len(c.waiters)) \ woke
        jobs == SelectSeqBy(c.waiters, woke)
    IN [c EXCEPT !.inflight   = Tail(@),
                 !.waiters    = SelectSeqBy(c.waiters, rest),
                 !.microtasks = @ \o [i \in 1..Len(jobs) |-> jobs[i].pc]]

Send(c, data, raw) ==
    IF c.closed THEN c
    ELSE SendNext([c EXCEPT !.outputBuffer =
                      @ \o (IF raw THEN data ELSE Encode(data, c.maxSize))])

\* ------------------------------------------------------ frame dispatch

\* The `Data frame' part of readFrame.
ReadDataFrame(c, frame, h) ==
    IF frame.opcode < 8
    THEN IF frame.isFinal
         THEN LET message == IF c.inputType = "text"
                             THEN Utf8Encode(c.inputBuffer)
                             ELSE c.inputBuffer
                  c1 == [c EXCEPT !.inputBuffer = <<>>, !.inputPending = FALSE]
              IN EmitH(c1, Ev("message", message, c.inputType, NoCode), h)
         ELSE [c EXCEPT !.inputPending = TRUE]
    ELSE c

\* A dispatcher that reports an incomplete message before every new one.
AlwaysStale(c) == TRUE

\* Whether readFrame reports the buffered message as incomplete.
HasStale(c) == Len(c.inputBuffer) > 0

\* A continuation that lands in front of the buffered bytes.
PrependPayload(buffer, payload) == payload \o buffer

\* inputBuffer.concat(frame.payload)
AppendPayload(buffer, payload) == buffer \o payload

\* A close case that leaves the flag as it was.
LeaveOpen(c) == c

\* this.#closed = true
MarkClosed(c) == [c EXCEPT !.closed = TRUE]

\* A dispatcher that takes every continuation for an expected one.
AlwaysExpecting(c) == TRUE

\* Whether readFrame expects a continuation frame.
Expecting(c) == c.inputPending

ReadFrame(c, frame, h) ==
    IF c.closed THEN c
    ELSE CASE frame.opname = "ping" -> Pong(EmitH(c, Ev("ping", <<>>, "", NoCode), h))
           [] frame.opname = "pong" -> EmitH(c, Ev("pong", <<>>, "", NoCode), h)
           [] frame.opname \in {"binary", "text"} ->
                LET c1 == IF HasStale(c)
                          THEN EmitH(c, Ev("incomplete-message", c.inputBuffer,
                                           c.inputType, NoCode), h)
                          ELSE c
                    c2 == [c1 EXCEPT !.inputBuffer = frame.payload,
                                     !.inputType   = frame.opname]
                IN ReadDataFrame(c2, frame, h)
           [] frame.opname = "continue" ->
                IF ~Expecting(c) THEN c
                ELSE ReadDataFrame([c EXCEPT !.inputBuffer = AppendPayload(@, frame.payload)],
                                   frame, h)
           [] frame.opname = "close" ->
                LET c1 == MarkClosed(c)
                IN IF Len(frame.payload) > 0
                   THEN Emit(c1, Ev("close", Utf8Encode(DropFirst(frame.payload, 2)), "",
                                    (frame.payload[1] % 256) * 256
                                        + (IF Len(frame.payload) > 1
                                           THEN frame.payload[2] % 256 ELSE 0)))
                   ELSE Emit(c1, Ev("close", <<>>, "", NoCode))
           [] OTHER -> ReadDataFrame(c, frame, h)

RECURSIVE ReadFrames(_, _, _)
ReadFrames(c, frames, h) ==
    IF frames = <<>> THEN c
    ELSE ReadFrames(ReadFrame(c, Head(frames), h), Tail(frames), h)

\* A readBytes that decodes the new bytes alone.
Unbuffered(c, data) == data

\* frameBuffer.push(...data)
Buffered(c, data) == c.frameBuffer \o data

ReadBytes(c, data, h) ==
    IF c.closed THEN c
    ELSE LET d == Decode(Buffered(c, data))
         IN ReadFrames([c EXCEPT !.frameBuffer = d.trailer], d.frames, h)


\* ------------------------------------------------------------- server

\* The channels Map: its entries in insertion order.
MapHas(m, k) == \E i \in 1..Len(m) : m[i].socket = k

MapGet(m, k) == m[CHOOSE i \in 1..Len(m) : m[i].socket = k].channel

MapSet(m, k, v) ==
    IF MapHas(m, k)
    THEN [i \in 1..Len(m) |->
              IF m[i].socket = k THEN [socket |-> k, channel |-> v] ELSE m[i]]
    ELSE Append(m, [socket |-> k, channel |-> v])

MapDelete(m, k) == SelectSeq(m, LAMBDA e : e.socket # k)

MapIndex(m, k) == CHOOSE i \in 1..Len(m) : m[i].socket = k

\* new Server().  `created' counts the Channels constructed.  A running
\* Server.close() is held by `closing' ("no", "awaiting" the end of socket
\* `awaited', or "shutdown" once super.close was called) and by `visited',
\* the number of entries of the table its iterator has passed.  `gone' are
\* the sockets whose peer has terminated the connection.
NewServer ==
    [listening |-> FALSE,
     channels  |-> <<>>,
     responses |-> <<>>,
     emitted   |-> <<>>,
     created   |-> 0,
     closing   |-> "no",
     visited   |-> 0,
     awaited   |-> 0,
     gone      |-> {}]

\* An observation of the Server, tagged with the channel it is about.
SrvEv(name, id, socket) == [name |-> name, id |-> id, socket |-> socket]

\* request.httpVersion is held in tenths: 11 is "1.1".
IsHandshake(request) ==
    /\ request.httpVersion >= 11
    /\ request.key # ""
    /\ request.upgrade = "websocket"
    /\ request.connection = "Upgrade"
    /\ request.method = "GET"

\* A Server that takes every socket for unconnected.
NeverConnected(s, socket) == FALSE

IsConnected(s, socket) == MapHas(s.channels, socket)

\* wsHandshake(key)
WsHandshake(key) == <<"SHA-1", key, "258EAFA5-E914-47DA-95CA-C5AB0DC85B11">>

\* upgrade({socket}); closes says whether a "ws:open" listener of the
\* application calls close() on the channel it is handed.
Upgrade(s, socket, closes) ==
    LET c0 == NewChannel(TRUE)
        t1 == MapSet(s.channels, socket, c0)
        c1 == [c0 EXCEPT !.id = Len(t1)]
        c2 == IF closes THEN Close(c1, 1000, <<>>) ELSE c1
        c3 == [c2 EXCEPT !.listeners = TRUE]
    IN [s EXCEPT !.channels = MapSet(t1, socket, c3),
                 !.created  = @ + 1,
                 !.emitted  = Append(@, SrvEv("open", c1.id, socket))]

HandleRequest(s, request, closes) ==
    IF ~s.listening THEN s
    ELSE IF ~IsHandshake(request)
    THEN [s EXCEPT !.responses = Append(@, [socket |-> request.socket, status |-> 400,
                                            accept |-> <<>>])]
    ELSE IF ~IsConnected(s, request.socket)
    THEN Upgrade([s EXCEPT !.responses =
                      Append(@, [socket |-> request.socket, status |-> 101,
                                 accept |-> WsHandshake(request.key)])],
                 request.socket, closes)
    ELSE s

\* The index of the first "close" among evs, 0 when there is none.
FirstClose(evs) ==
    IF \E i \in 1..Len(evs) : evs[i].name = "close"
    THEN CHOOSE i \in 1..Len(evs) :
            /\ evs[i].name = "close"
            /\ \A j \in 1..(i - 1) : evs[j].name # "close"
    ELSE 0

\* The listeners upgrade() attached to channel c, run on what an operation
\* that took c to c2 emitted: each observation is re-emitted by the Server,
\* and on "close" the channel leaves the table with its listeners detached.
Relay(s, socket, c, c2) ==
    LET new == DropFirst(c2.emitted, Len(c.emitted))
        k   == FirstClose(new)
        n   == IF k = 0 THEN Len(new) ELSE k
    IN IF ~c.listeners
       THEN [s EXCEPT !.channels = MapSet(@, socket, c2)]
       ELSE [s EXCEPT !.emitted  = @ \o [i \in 1..n |-> SrvEv(new[i].name, c.id, socket)],
                      !.channels = IF k = 0 THEN MapSet(@, socket, c2)
                                   ELSE MapDelete(@, socket),
                      !.visited  = IF k # 0 /\ MapIndex(s.channels, socket) <= @
                                   THEN @ - 1 ELSE @]

RECURSIVE CloseLoop(_)
\* The loop of Server.close() from the iterator's next() to the next
\* await that has to wait, or to super.close().
CloseLoop(s) ==
    IF s.visited < Len(s.channels)
    THEN LET e  == s.channels[s.visited + 1]
             s1 == [s EXCEPT !.visited = @ + 1]
         IN IF e.channel.closed THEN CloseLoop(s1)
            ELSE [Relay(s1, e.socket, e.channel, Close(e.channel, 1001, <<>>))
                     EXCEPT !.closing = "awaiting", !.awaited = e.socket]
    ELSE [s EXCEPT !.listening = FALSE, !.closing = "shutdown",
                   !.visited = 0, !.awaited = 0]

\* Server.close()
ServerClose(s) == CloseLoop([s EXCEPT !.visited = 0])

\* The socket whose end Server.close() awaits has finished ending.
EndDone(s) == CloseLoop([s EXCEPT !.awaited = 0])

\* The peer's socket terminates: the Channel listens for "data" alone.
SocketClosed(c) == c

\* encode()'s default maxSize: above every length.
Infinity == 2147483647

\* A broadcast that has each channel encode the message for itself.
BroadcastEncoded(c, data, frames) == Send(c, data, FALSE)

\* channel.send(data, true) of Server.send
Broadcast(c, data, frames) == Send(c, frames, TRUE)

\* Server.send(data)
ServerSend(s, data) ==
    LET frames == Encode(data, Infinity)
    IN [s EXCEPT !.channels =
           [i \in 1..Len(@) |->
               [socket  |-> @[i].socket,
                channel |-> Broadcast(@[i].channel, data, frames)]]]

\* ------------------------------------------------------ pack and unpack

\* An integer of any size is a sign and a magnitude, the magnitude written
\* in big-endian bytes without a leading zero byte (the empty sequence is
\* zero).  A value of JavaScript is a record: t is its type ("Number" for
\* an integral Number, "Fraction" for any other finite Number, held as the
\* eight bytes of its float64 form; the name of the constant for each of
\* the eight constants), and data its magnitude, bytes, code points or text.
Val(t, neg, data, kind) == [t |-> t, neg |-> neg, data |-> data, kind |-> kind]

Const(name) == Val(name, FALSE, <<>>, 0)

Singletons ==
    <<"undefined", "null", "NaN", "true", "false", "Infinity", "-Infinity", "-0">>

RECURSIVE Strip(_)
Strip(b) == IF b # <<>> /\ Head(b) = 0 THEN Strip(Tail(b)) ELSE b

Zeros(n) == [i \in 1..n |-> 0]

Ones(n) == [i \in 1..n |-> 255]

PadLeft(b, n) == Zeros(n - Len(b)) \o b

RECURSIVE LexLeq(_, _)
LexLeq(a, b) ==
    IF a = <<>> THEN TRUE
    ELSE IF Head(a) # Head(b) THEN Head(a) < Head(b)
    ELSE LexLeq(Tail(a), Tail(b))

\* a <= b, for magnitudes.
MagLeq(a, b) == IF Len(a) # Len(b) THEN Len(a) < Len(b) ELSE LexLeq(a, b)

RECURSIVE AddOne(_)
AddOne(b) ==
    IF b = <<>> THEN <<>>
    ELSE IF Last(b) = 255 THEN Append(AddOne(Front(b)), 0)
    ELSE Append(Front(b), Last(b) + 1)

\* The two's complement of b on as many bytes as b has.
Negate(b) == AddOne([i \in 1..Len(b) |-> 255 - b[i]])

\* 2^(8n-1) - 1, the largest magnitude of a signed integer of n bytes.
MaxInt(n) == <<127>> \o Ones(n - 1)

\* Whether ~~input === input holds for an integral Number: ToInt32 gives
\* the number back inside [-2^31, 2^31 - 1] only.
IsInt32(v) ==
    IF v.neg THEN MagLeq(v.data, <<128, 0, 0, 0>>) ELSE MagLeq(v.data, MaxInt(4))

ByteBits(b) == [i \in 1..8 |-> (b \div (2 ^ (8 - i))) % 2]

BitsOf(bytes) == Flatten([i \in 1..Len(bytes) |-> ByteBits(bytes[i])])

RECURSIVE BitsValue(_)
BitsValue(bits) == IF bits = <<>> THEN 0 ELSE 2 * BitsValue(Front(bits)) + Last(bits)

BytesOf(bits) ==
    [i \in 1..(Len(bits) \div 8) |-> BitsValue(SubSeq(bits, 8 * i - 7, 8 * i))]

\* DataView.setFloat64 of a nonzero integral Number: the exponent is the
\* place of its leading bit, the fraction the 52 bits after it.
Float64Bytes(v) ==
    LET bits == Strip(BitsOf(v.data))
        expo == 1023 + Len(bits) - 1
        frac == SubSeq(Tail(bits) \o Zeros(52), 1, 52)
    IN BytesOf(<<IF v.neg THEN 1 ELSE 0>>
               \o [i \in 1..11 |-> (expo \div (2 ^ (11 - i))) % 2]
               \o frac)

\* DataView.getFloat64
Float64Value(bytes) ==
    LET bits == BitsOf(bytes)
        neg  == bits[1] = 1
        expo == BitsValue(SubSeq(bits, 2, 12))
        frac == SubSeq(bits, 13, 64)
        e    == expo - 1023
        int  == <<1>> \o SubSeq(frac \o Zeros(e - 52), 1, e)
    IN IF expo = 2047
       THEN IF frac # Zeros(52) THEN Const("NaN")
            ELSE IF neg THEN Const("-Infinity") ELSE Const("Infinity")
       ELSE IF expo = 0 /\ frac = Zeros(52)
       THEN IF neg THEN Const("-0") ELSE Val("Number", FALSE, <<>>, 0)
       ELSE IF e >= 0 /\ \A i \in (e + 1)..52 : frac[i] = 0
       THEN Val("Number", neg,
                Strip(BytesOf(Zeros((8 - (Len(int) % 8)) % 8) \o int)), 0)
       ELSE Val("Fraction", FALSE, bytes, 0)

\* uint64ToBytes(n), for n below 2^24.
Uint64ToBytes(n) == <<0, 0, 0, 0, 0, (n \div 65536) % 256, (n \div 256) % 256, n % 256>>

\* The element types of the typed arrays, in the order of packValue's
\* list, and the BYTES_PER_ELEMENT of each.
BytesPerElement == <<1, 2, 4, 8, 1, 2, 4, 8, 4, 8>>

\* The integer branch of packValue.
PackInteger(v) ==
    LET width == IF ~v.neg
                 THEN IF MagLeq(v.data, Ones(1)) THEN 1
                      ELSE IF MagLeq(v.data, Ones(2)) THEN 2
                      ELSE IF MagLeq(v.data, Ones(4)) THEN 4
                      ELSE IF MagLeq(v.data, Ones(8)) THEN 8 ELSE 0
                 ELSE IF MagLeq(v.data, MaxInt(1)) THEN 1
                      ELSE IF MagLeq(v.data, MaxInt(2)) THEN 2
                      ELSE IF MagLeq(v.data, MaxInt(4)) THEN 4
                      ELSE IF MagLeq(v.data, MaxInt(8)) THEN 8 ELSE 0
        index == CASE width = 1 -> 0 [] width = 2 -> 1 [] width = 4 -> 2 [] OTHER -> 3
    IN IF width = 0
       THEN <<IF v.neg THEN 28 ELSE 27>> \o Uint64ToBytes(Len(v.data)) \o v.data
       ELSE IF v.neg
       THEN <<index + 4 + 8>> \o Negate(PadLeft(v.data, width))
       ELSE <<index + 8>> \o PadLeft(v.data, width)

\* Code points of a String given as text of the model.
PackText(tag, text) ==
    LET bytes == Utf8Decode(text)
    IN <<tag>> \o Uint64ToBytes(Len(bytes)) \o bytes

\* packValue(input)
PackValue(v) ==
    CASE v.t = "NaN"       -> <<2>>
      [] v.t = "-0"        -> <<7>>
      [] v.t = "undefined" -> <<0>>
      [] v.t = "null"      -> <<1>>
      [] v.t = "true"      -> <<3>>
      [] v.t = "false"     -> <<4>>
      [] v.t = "Infinity"  -> <<5>>
      [] v.t = "-Infinity" -> <<6>>
      [] v.t = "Fraction"  -> <<26>> \o v.data
      [] v.t = "Number"    -> IF ~IsInt32(v) THEN <<26>> \o Float64Bytes(v)
                              ELSE PackInteger(v)
      [] v.t = "BigInt"    -> PackInteger(v)
      [] v.t = "TypedArray" -> <<v.kind + 16>> \o Uint64ToBytes(Len(v.data)) \o v.data
      [] v.t = "Date"      -> PackText(29, v.data)
      [] v.t = "String"    -> PackText(30, v.data)
      [] v.t = "RegExp"    -> LET bytes == Utf8Decode(v.data)
                              IN <<31>> \o Uint64ToBytes(Len(bytes)) \o <<v.kind>> \o bytes
      [] OTHER             -> PackText(32, v.data)

\* pack(...args)
Pack(args) ==
    Uint64ToBytes(Len(args)) \o Flatten([i \in 1..Len(args) |-> PackValue(args[i])])

\* Sizes of 2^24 and more are held as 2^24, which is past the end of every
\* buffer of the model.
Huge == 16777216

\* Number(view.getBigUint64(0))
Uint64Value(bytes) ==
    IF SubSeq(bytes, 1, 5) # Zeros(5) THEN Huge
    ELSE bytes[6] * 65536 + bytes[7] * 256 + bytes[8]

\* What unpackValue does: it throws, or returns [size, value].
Thrown == [error |-> TRUE, size |-> 0, value |-> Const("undefined")]

Returned(size, value) == [error |-> FALSE, size |-> size, value |-> value]

\* The getUint and getInt methods of DataView at offset 0, for the tags 8
\* to 15; they throw when the view is shorter than the integer.
GetInteger(type, view) ==
    LET width == BytesPerElement[((type - 8) % 4) + 1]
        bytes == SubSeq(view, 1, width)
        neg   == type >= 12 /\ bytes[1] >= 128
    IN IF Len(view) < width THEN Thrown
       ELSE Returned(1 + width,
                     Val(IF width = 8 THEN "BigInt" ELSE "Number", neg,
                         Strip(IF neg THEN Negate(bytes) ELSE bytes), 0))

\* unpackValue(input)
UnpackValue(input) ==
    IF input = <<>> THEN Thrown
    ELSE LET type == input[1]
             view == Tail(input)
             size == IF Len(view) >= 8 THEN Uint64Value(SubSeq(view, 1, 8)) ELSE 0
             Sub(from, n) == SubSeq(input, from + 1, Min(from + n, Len(input)))
             text == Utf8Encode(Sub(9, size))
         IN CASE type < 8 -> Returned(1, Const(Singletons[type + 1]))
              [] type \in 8..15 -> GetInteger(type, view)
              [] type = 26 ->
                   IF Len(view) < 8 THEN Thrown
                   ELSE Returned(9, Float64Value(SubSeq(view, 1, 8)))
              [] type \in 16..25 ->
                   LET per   == BytesPerElement[type - 15]
                       slice == Sub(9, size * per)
                   IN IF Len(slice) % per # 0 THEN Thrown
                      ELSE Returned(9, Val("TypedArray", FALSE, slice, type - 16))
              [] type \in {27, 28} ->
                   LET digits == Sub(9, size)
                   IN IF digits = <<>> THEN Thrown
                      ELSE Returned(9 + size,
                                    Val("BigInt", type = 28 /\ Strip(digits) # <<>>,
                                        Strip(digits), 0))
              [] type = 31 ->
                   IF Len(view) < 9 THEN Thrown
                   ELSE LET source == Utf8Encode(Sub(10, size))
                        IN Returned(10 + size,
                                    Val("RegExp", FALSE,
                                        IF source = <<>> THEN <<40, 63, 58, 41>> ELSE source,
                                        view[9]))
              [] type = 29 -> Returned(9 + size, Val("Date", FALSE, text, 0))
              [] type = 30 -> Returned(9 + size, Val("String", FALSE, text, 0))
              [] type = 32 ->
                   IF text = <<>> THEN Thrown
                   ELSE Returned(9 + size, Val("Object", FALSE, text, 0))
              [] OTHER -> Thrown

\* What unpack does: it throws, or returns an array of `length' entries
\* of which the first Len(args) were assigned.
RECURSIVE UnpackLoop(_, _, _, _)
UnpackLoop(bytes, size, offset, args) ==
    IF offset < Len(bytes) /\ Len(args) < size
    THEN LET r == UnpackValue(DropFirst(bytes, offset))
         IN IF r.error THEN [error |-> TRUE, length |-> 0, args |-> <<>>]
            ELSE UnpackLoop(bytes, size, offset + r.size, Append(args, r.value))
    ELSE [error |-> FALSE, length |-> size, args |-> args]

\* unpack(bytes): getBigUint64 throws on fewer than eight bytes and
\* new Array(size) on a size of 2^32 or more.
Unpack(bytes) ==
    IF Len(bytes) < 8 \/ SubSeq(bytes, 1, 4) # Zeros(4)
    THEN [error |-> TRUE, length |-> 0, args |-> <<>>]
    ELSE UnpackLoop(bytes, Uint64Value(SubSeq(bytes, 1, 8)), 8, <<>>)

\* ---------------------------------------------------------------- state

VARIABLES
    ch,         \* a Channel made by `new Channel(socket)'
    submitted,  \* history: the frames send() appended to ch.outputBuffer, in order
    pre,        \* history: ch before the last close() call or delivery of bytes
    last,       \* history: that operation and the frame it delivered
    train,      \* history: the data frames dispatched since the last text or binary frame
    steps,      \* the number of bounded inputs taken so far
    srv,        \* a Server
    preSrv,     \* history: srv before the last operation on it
    lastSrv,    \* history: the last operation on srv
    arg,        \* the arguments of a call of encode, pack or unpack
    stage,      \* how far that call has come: "input", "packed", "unpacked"
    packed,     \* what encode or pack returned
    unpacked    \* what unpack returned

vars == <<ch, submitted, pre, last, train, steps, srv, preSrv, lastSrv,
          arg, stage, packed, unpacked>>

codecVars == <<arg, stage, packed, unpacked>>

chanVars == <<ch, submitted, pre, last, train>>

srvVars == <<srv, preSrv, lastSrv>>

\* The messages the application sends.
Messages ==
    {[type |-> "bytes",  content |-> <<1>>],
     [type |-> "bytes",  content |-> <<2, 3>>],
     [type |-> "string", content |-> <<233>>]}

\* The values the application assigns to maxSize.
MaxSizes == {0, 1, 2}

NoFrame == [opcode |-> 15, isFinal |-> FALSE, payload |-> <<>>]

Op(name, frame) == [op |-> name, frame |-> frame]

NoRequest ==
    [socket |-> 0, httpVersion |-> 0, key |-> "", upgrade |-> "", connection |-> "",
     method |-> ""]

NoMessage == [type |-> "bytes", content |-> <<>>]

SrvOp(name, request, socket, data) ==
    [op |-> name, request |-> request, socket |-> socket, data |-> data]

\* A fresh Channel and a fresh Server.
Fresh ==
    /\ ch = NewChannel(FALSE)
    /\ submitted = <<>>
    /\ pre = NewChannel(FALSE)
    /\ last = Op("new", NoFrame)
    /\ train = <<>>
    /\ steps = 0
    /\ srv = NewServer
    /\ preSrv = NewServer
    /\ lastSrv = SrvOp("new", NoRequest, 0, NoMessage)

\* No call of the codec functions under way.
NoCall ==
    /\ arg = <<>>
    /\ stage = "none"
    /\ packed = <<>>
    /\ unpacked = <<>>

Init == Fresh /\ NoCall

\* ------------------------------------------------- the send pump's spec

\* The application calls send(data).
DoSend(data) ==
    /\ steps < MaxSends
    /\ ch' = Send(ch, data, FALSE)
    /\ submitted' = submitted \o DropFirst(ch'.outputBuffer, Len(ch.outputBuffer))
    /\ steps' = steps + 1
    /\ UNCHANGED <<pre, last, train>>
    /\ UNCHANGED srvVars
    /\ UNCHANGED codecVars

\* The application assigns maxSize.
DoSetMaxSize(to) ==
    /\ ch' = SetMaxSize(ch, to)
    /\ UNCHANGED <<submitted, pre, last, train, steps>>
    /\ UNCHANGED srvVars
    /\ UNCHANGED codecVars

\* The application calls ping() or pong().
DoPing ==
    /\ steps < MaxSends
    /\ ch' = Ping(ch)
    /\ steps' = steps + 1
    /\ UNCHANGED <<submitted, pre, last, train>>
    /\ UNCHANGED srvVars
    /\ UNCHANGED codecVars

DoPong ==
    /\ steps < MaxSends
    /\ ch' = Pong(ch)
    /\ steps' = steps + 1
    /\ UNCHANGED <<submitted, pre, last, train>>
    /\ UNCHANGED srvVars
    /\ UNCHANGED codecVars

\* The application calls close().
DoClose ==
    /\ ch' = Close(ch, 1000, <<>>)
    /\ UNCHANGED <<submitted, pre, last, train, steps>>
    /\ UNCHANGED srvVars
    /\ UNCHANGED codecVars

\* A promise job runs: a suspended sendNext() resumes.
DoMicrotask ==
    /\ ch.microtasks # <<>>
    /\ ch' = RunMicrotask(ch)
    /\ UNCHANGED <<submitted, pre, last, train, steps>>
    /\ UNCHANGED srvVars
    /\ UNCHANGED codecVars

\* The socket completes a write; its callback runs when no promise job is left.
DoWriteDone ==
    /\ ch.microtasks = <<>>
    /\ ch.inflight # <<>>
    /\ ch' = WriteDone(ch)
    /\ UNCHANGED <<submitted, pre, last, train, steps>>
    /\ UNCHANGED srvVars
    /\ UNCHANGED codecVars

NextSend ==
    \/ \E data \in Messages : DoSend(data)
    \/ \E to \in MaxSizes : DoSetMaxSize(to)
    \/ DoPing
    \/ DoPong
    \/ DoClose
    \/ DoMicrotask
    \/ DoWriteDone

SpecSend == Init /\ [][NextSend]_vars


\* ------------------------------------------- the frame dispatcher's spec

\* The frames the peer sends: data frames of every kind (195 169 is the
\* UTF-8 form of one code point, split over two frames), a frame with a
\* reserved opcode, and the control frames.
Frames ==
    [opcode : {1, 2}, isFinal : BOOLEAN, payload : {<<>>, <<195>>}]
    \cup [opcode : {0}, isFinal : BOOLEAN, payload : {<<>>, <<169>>}]
    \cup [opcode : {3}, isFinal : BOOLEAN, payload : {<<>>}]
    \cup [opcode : {8}, isFinal : {TRUE}, payload : {<<>>, <<3, 233, 65>>}]
    \cup [opcode : {9, 10}, isFinal : {TRUE}, payload : {<<>>}]

\* The event whose listener calls close(), if any, among the events the
\* dispatch of frame f can emit.
Handlers(f) ==
    {"none"} \cup (CASE f.opcode = 9  -> {"ping"}
                     [] f.opcode = 10 -> {"pong"}
                     [] f.opcode = 8  -> {}
                     [] f.opcode \in {1, 2} -> {"incomplete-message", "message"}
                     [] OTHER -> {"message"})

\* The status codes the application closes with.
CloseCodes == {0, 1000}

\* The frames of the message in progress after frame f reached channel c.
Track(t, c, f) ==
    IF c.closed THEN t
    ELSE IF f.opcode \in {1, 2} THEN <<f>>
    ELSE IF f.opcode = 0
         THEN IF t # <<>> /\ ~Last(t).isFinal THEN Append(t, f) ELSE <<>>
    ELSE IF f.opcode >= 8 THEN t
    ELSE <<>>

\* The socket delivers the bytes of one frame.
RecvFrame(f, h) ==
    /\ steps < MaxFrames
    /\ ch' = ReadBytes(ch, WsEncodeFrame(f), h)
    /\ pre' = ch
    /\ last' = Op("frame", f)
    /\ train' = Track(train, ch, f)
    /\ steps' = steps + 1
    /\ UNCHANGED submitted
    /\ UNCHANGED srvVars
    /\ UNCHANGED codecVars

\* The application calls close(code).
RecvClose(code) ==
    /\ ch' = Close(ch, code, <<>>)
    /\ pre' = ch
    /\ last' = Op("close", NoFrame)
    /\ UNCHANGED <<submitted, train, steps>>
    /\ UNCHANGED srvVars
    /\ UNCHANGED codecVars

NextRecv ==
    \/ \E f \in Frames : \E h \in Handlers(f) : RecvFrame(f, h)
    \/ \E code \in CloseCodes : RecvClose(code)

SpecRecv == Init /\ [][NextRecv]_vars

\* ------------------------------------------------- the payload limit's spec

\* Data frames of one to three payload bytes.
LongFrames ==
    [opcode : {0, 1, 2}, isFinal : BOOLEAN, payload : {<<65>>, <<65, 66>>, <<65, 66, 67>>}]

\* The application assigns maxSize.
RecvSetMaxSize(to) ==
    /\ ch' = SetMaxSize(ch, to)
    /\ pre' = ch
    /\ last' = Op("maxSize", NoFrame)
    /\ UNCHANGED <<submitted, train, steps>>
    /\ UNCHANGED srvVars
    /\ UNCHANGED codecVars

NextLimit ==
    \/ \E f \in LongFrames : RecvFrame(f, "none")
    \/ \E to \in MaxSizes : RecvSetMaxSize(to)

SpecLimit == Init /\ [][NextLimit]_vars

\* --------------------------------------------------------- the server's spec

Sockets == {1, 2}

\* A well-formed handshake on socket s, and requests that each miss one of
\* the conditions of isHandshake.
Handshake(s) ==
    [socket |-> s, httpVersion |-> 11, key |-> "dGhlIHNhbXBsZSBub25jZQ==",
     upgrade |-> "websocket", connection |-> "Upgrade", method |-> "GET"]

Requests(s) ==
    {Handshake(s),
     [Handshake(s) EXCEPT !.httpVersion = 10],
     [Handshake(s) EXCEPT !.key = ""],
     [Handshake(s) EXCEPT !.upgrade = "h2c"],
     [Handshake(s) EXCEPT !.connection = "keep-alive"],
     [Handshake(s) EXCEPT !.method = "POST"]}

\* The frames the peers of the server's channels send.
SrvFrames ==
    {[opcode |-> 8, isFinal |-> TRUE, payload |-> <<>>],
     [opcode |-> 9, isFinal |-> TRUE, payload |-> <<>>],
     [opcode |-> 1, isFinal |-> TRUE, payload |-> <<195>>]}

\* listen(port)
SrvListen ==
    /\ ~srv.listening
    /\ srv' = [srv EXCEPT !.listening = TRUE]
    /\ preSrv' = srv
    /\ lastSrv' = SrvOp("listen", NoRequest, 0, NoMessage)
    /\ UNCHANGED steps
    /\ UNCHANGED chanVars
    /\ UNCHANGED codecVars

\* The "request" event.
SrvRequest(request, closes) ==
    /\ steps < MaxRequests
    /\ request.socket \notin srv.gone
    /\ srv' = HandleRequest(srv, request, closes)
    /\ preSrv' = srv
    /\ lastSrv' = SrvOp("request", request, request.socket, NoMessage)
    /\ steps' = steps + 1
    /\ UNCHANGED chanVars
    /\ UNCHANGED codecVars

\* The socket of a channel of the table delivers the bytes of one frame.
SrvFrame(socket, f, h) ==
    /\ steps < MaxRequests
    /\ socket \notin srv.gone
    /\ MapHas(srv.channels, socket)
    /\ LET c == MapGet(srv.channels, socket)
       IN srv' = Relay(srv, socket, c, ReadBytes(c, WsEncodeFrame(f), h))
    /\ preSrv' = srv
    /\ lastSrv' = SrvOp("frame", NoRequest, socket, NoMessage)
    /\ steps' = steps + 1
    /\ UNCHANGED chanVars
    /\ UNCHANGED codecVars

\* The application calls close() on a channel of the table.
SrvChannelClose(socket) ==
    /\ MapHas(srv.channels, socket)
    /\ LET c == MapGet(srv.channels, socket)
       IN srv' = Relay(srv, socket, c, Close(c, 1000, <<>>))
    /\ preSrv' = srv
    /\ lastSrv' = SrvOp("close", NoRequest, socket, NoMessage)
    /\ UNCHANGED steps
    /\ UNCHANGED chanVars
    /\ UNCHANGED codecVars

\* The application calls Server.send(data).
SrvSend(data) ==
    /\ steps < MaxRequests
    /\ srv' = ServerSend(srv, data)
    /\ preSrv' = srv
    /\ lastSrv' = SrvOp("send", NoRequest, 0, data)
    /\ steps' = steps + 1
    /\ UNCHANGED chanVars
    /\ UNCHANGED codecVars

\* The application assigns maxSize on a channel of the table.
SrvSetMaxSize(socket, to) ==
    /\ MapHas(srv.channels, socket)
    /\ srv' = [srv EXCEPT !.channels =
                   MapSet(@, socket, SetMaxSize(MapGet(@, socket), to))]
    /\ preSrv' = srv
    /\ lastSrv' = SrvOp("maxSize", NoRequest, socket, NoMessage)
    /\ UNCHANGED steps
    /\ UNCHANGED chanVars
    /\ UNCHANGED codecVars

\* The application calls Server.close().
SrvClose ==
    /\ srv.closing = "no"
    /\ srv' = ServerClose(srv)
    /\ preSrv' = srv
    /\ lastSrv' = SrvOp("shutdown", NoRequest, 0, NoMessage)
    /\ UNCHANGED steps
    /\ UNCHANGED chanVars
    /\ UNCHANGED codecVars

\* The socket Server.close() ended finishes ending.
SrvEndDone ==
    /\ srv.closing = "awaiting"
    /\ srv' = EndDone(srv)
    /\ preSrv' = srv
    /\ lastSrv' = SrvOp("ended", NoRequest, srv.awaited, NoMessage)
    /\ UNCHANGED steps
    /\ UNCHANGED chanVars
    /\ UNCHANGED codecVars

\* The peer of a channel of the table terminates its socket.
SrvSocketEnd(socket) ==
    /\ socket \notin srv.gone
    /\ MapHas(srv.channels, socket)
    /\ LET c == MapGet(srv.channels, socket)
       IN srv' = [Relay(srv, socket, c, SocketClosed(c)) EXCEPT !.gone = @ \cup {socket}]
    /\ preSrv' = srv
    /\ lastSrv' = SrvOp("end", NoRequest, socket, NoMessage)
    /\ UNCHANGED steps
    /\ UNCHANGED chanVars
    /\ UNCHANGED codecVars

NextServer ==
    \/ SrvListen
    \/ \E s \in Sockets : \E request \in Requests(s) : \E closes \in BOOLEAN :
          SrvRequest(request, closes)
    \/ \E s \in Sockets : \E f \in SrvFrames : \E h \in Handlers(f) : SrvFrame(s, f, h)
    \/ \E s \in Sockets : SrvChannelClose(s)

SpecServer == Init /\ [][NextServer]_vars

\* ------------------------------------------------------ the broadcast's spec

NextBroadcast ==
    \/ SrvListen
    \/ \E s \in Sockets : \E request \in Requests(s) : \E closes \in BOOLEAN :
          SrvRequest(request, closes)
    \/ \E data \in Messages : SrvSend(data)
    \/ \E s \in Sockets : \E to \in MaxSizes : SrvSetMaxSize(s, to)

SpecBroadcast == Init /\ [][NextBroadcast]_vars

\* ------------------------------------------------------- the shutdown's spec

NextShutdown ==
    \/ SrvListen
    \/ \E s \in Sockets : \E closes \in BOOLEAN : SrvRequest(Handshake(s), closes)
    \/ \E s \in Sockets : SrvChannelClose(s)
    \/ \E s \in Sockets : SrvSocketEnd(s)
    \/ SrvClose
    \/ SrvEndDone

SpecShutdown == Init /\ [][NextShutdown]_vars

\* ------------------------------------------------------------ encode's spec

\* Sequences over alphabet of length n, and of length at most n.
RECURSIVE SeqsOfLen(_, _)
SeqsOfLen(alphabet, n) ==
    IF n = 0 THEN {<<>>}
    ELSE {Append(q, x) : q \in SeqsOfLen(alphabet, n - 1), x \in alphabet}

SeqsUpTo(alphabet, n) == UNION {SeqsOfLen(alphabet, k) : k \in 0..n}

\* The calls encode(message, maxSize): strings of the code points A and
\* e-acute (one and two bytes of UTF-8), bytes, and each maxSize up to one
\* above the longest string, or left at its default.
EncodeCalls ==
    [message : [type : {"string", "bytes"}, content : SeqsUpTo({65, 233}, MaxLen)],
     maxSize : (1..(MaxLen + 1)) \cup {Infinity}]

InitEncode ==
    /\ Fresh
    /\ arg \in EncodeCalls
    /\ stage = "input"
    /\ packed = <<>>
    /\ unpacked = <<>>

\* encode(message, maxSize) returns.
ApplyEncode ==
    /\ stage = "input"
    /\ packed' = Encode(arg.message, arg.maxSize)
    /\ stage' = "packed"
    /\ UNCHANGED <<arg, unpacked, steps>>
    /\ UNCHANGED chanVars
    /\ UNCHANGED srvVars

NextEncode == ApplyEncode

SpecEncode == InitEncode /\ [][NextEncode]_vars

\* ------------------------------------------------- pack and unpack's specs

\* Magnitudes on both sides of every threshold of packValue: 0, 1, 127,
\* 128, 255, 256, 2^15 - 1, 2^15, 2^16 - 1, 2^16, 2^31 - 1, 2^31, 3*10^9,
\* 2^32 - 1, 2^32, 2^53, 2^63 - 1, 2^63, 2^64 - 1, 2^64, and one of ten bytes.
Magnitudes ==
    {<<>>, <<1>>, <<127>>, <<128>>, <<255>>, <<1, 0>>, MaxInt(2), <<128, 0>>, Ones(2),
     <<1, 0, 0>>, MaxInt(4), <<128, 0, 0, 0>>, <<178, 208, 94, 0>>, Ones(4),
     <<1, 0, 0, 0, 0>>, <<32, 0, 0, 0, 0, 0, 0>>, MaxInt(8), <<128>> \o Zeros(7),
     Ones(8), <<1>> \o Zeros(8), <<1, 2, 3, 4, 5, 6, 7, 8, 9, 10>>}

\* Whether a Number has this magnitude: 53 significant bits at most.
IsDouble(mag) ==
    LET bits == Strip(BitsOf(mag))
    IN \A i \in 54..Len(bits) : bits[i] = 0

\* The integers given to pack, as Numbers and as BigInts.
IntegerValues ==
    {v \in [t : {"Number", "BigInt"}, neg : BOOLEAN, data : Magnitudes, kind : {0}] :
        /\ v.neg => v.data # <<>>
        /\ v.t = "Number" => IsDouble(v.data)}

ConstValues == {Const(Singletons[i]) : i \in 1..Len(Singletons)}

\* The arguments of SpecPack: 1, -5, 1.5, a BigInt of nine bytes, null,
\* "a", a Uint8Array of one element and a Uint16Array of two.
PackValues ==
    {Val("Number", FALSE, <<1>>, 0),
     Val("Number", TRUE, <<5>>, 0),
     Val("Fraction", FALSE, <<63, 248, 0, 0, 0, 0, 0, 0>>, 0),
     Val("BigInt", FALSE, <<1>> \o Zeros(8), 0),
     Const("null"),
     Val("String", FALSE, <<97>>, 0),
     Val("TypedArray", FALSE, <<7>>, 0),
     Val("TypedArray", FALSE, <<1, 0, 2, 0>>, 1)}

\* pack(...args) is called.
ApplyPack ==
    /\ stage = "input"
    /\ packed' = Pack(arg)
    /\ stage' = "packed"
    /\ UNCHANGED <<arg, unpacked, steps>>
    /\ UNCHANGED chanVars
    /\ UNCHANGED srvVars

\* unpack(bytes) is called.
ApplyUnpack ==
    /\ stage = "packed"
    /\ unpacked' = Unpack(packed)
    /\ stage' = "unpacked"
    /\ UNCHANGED <<arg, packed, steps>>
    /\ UNCHANGED chanVars
    /\ UNCHANGED srvVars

NextPack == ApplyPack \/ ApplyUnpack

\* pack and unpack of one integer or constant.
InitPackValue ==
    /\ Fresh
    /\ arg \in {<<v>> : v \in IntegerValues \cup ConstValues}
    /\ stage = "input"
    /\ packed = <<>>
    /\ unpacked = <<>>

SpecPackValue == InitPackValue /\ [][NextPack]_vars

\* pack and unpack of a list of arguments.
InitPack ==
    /\ Fresh
    /\ arg \in SeqsUpTo(PackValues, MaxArgs)
    /\ stage = "input"
    /\ packed = <<>>
    /\ unpacked = <<>>

SpecPack == InitPack /\ [][NextPack]_vars

\* Type tags that packValue never writes.
BadTags == {33, 64, 255}

\* The byte sequences given to unpack, each with what it is: the empty
\* input; what pack returned, cut short after its count prefix; what pack
\* returned for one more argument, with a tag of no type where that
\* argument would start; and what pack returned, whole.
UnpackCalls ==
    LET lists == SeqsUpTo(PackValues, MaxArgs)
    IN {[class |-> "empty", bytes |-> <<>>]}
       \cup UNION {{[class |-> "truncated", bytes |-> SubSeq(Pack(a), 1, n)] :
                        n \in 8..(Len(Pack(a)) - 1)} : a \in lists}
       \cup {[class |-> "tag",
              bytes |-> Uint64ToBytes(Len(a) + 1) \o DropFirst(Pack(a), 8)
                           \o <<tag>> \o Zeros(8)] :
                 a \in lists, tag \in BadTags}
       \cup {[class |-> "whole", bytes |-> Pack(a)] : a \in lists}

InitUnpack ==
    /\ Fresh
    /\ arg \in UnpackCalls
    /\ stage = "packed"
    /\ packed = arg.bytes
    /\ unpacked = <<>>

NextUnpack == ApplyUnpack

SpecUnpack == InitUnpack /\ [][NextUnpack]_vars

\* ================================================================ claims

\* The frames the send pump handed to socket.write, in order.
PumpFrames(c) ==
    LET w == SelectSeq(c.written, LAMBDA e : e.promise # 0)
    IN [i \in 1..Len(w) |-> w[i].frame]

\* The writes of the send pump whose completion callback has not fired.
PumpInFlight(c) == {i \in 1..Len(c.inflight) : c.inflight[i] # 0}

\* C1: on a channel that is never closed, the frames handed to socket.write
\* by the send pump, followed by the frames still queued, are the frames
\* send() appended to outputBuffer, in the order they were appended: the
\* writes are a prefix of the submissions, none twice, none skipped.
C1_FifoWrites ==
    ~ch.closed => PumpFrames(ch) \o ch.outputBuffer = submitted

\* C1's case: three or more frames, one of them a non-final fragment, all
\* written on an open channel.
C1_Witness ==
    /\ ~ch.closed
    /\ Len(submitted) >= 3
    /\ PumpFrames(ch) = submitted
    /\ \E i \in 1..Len(submitted) : submitted[i][1] < 128
    /\ \E i, j \in 1..Len(submitted) : submitted[i] # submitted[j]

\* C2: at every moment at most one write started by sendNext is in flight.
C2_OneWriteInFlight ==
    Cardinality(PumpInFlight(ch)) <= 1

\* C3: once closed is true, no step writes to the socket, emits an
\* observation, or touches the input buffers.
C3_NothingOnceClosed ==
    [][ch.closed =>
         /\ ch'.written = ch.written
         /\ ch'.emitted = ch.emitted
         /\ ch'.frameBuffer = ch.frameBuffer
         /\ ch'.inputBuffer = ch.inputBuffer
         /\ ch'.inputPending = ch.inputPending]_vars


\* What the last operation on ch added to the events and to the writes.
NewEvents == DropFirst(ch.emitted, Len(pre.emitted))

NewWrites == DropFirst(ch.written, Len(pre.written))

NamedEvents(evs, name) == SelectSeq(evs, LAMBDA e : e.name = name)

CloseFramesWritten(c) ==
    Cardinality({i \in 1..Len(c.written) : c.written[i].frame[1] = 136})

\* The last operation dispatched a frame to an open channel.
Dispatched == last.op = "frame" /\ ~pre.closed

\* C4 as stated: after a close() call exactly one close frame has been
\* written and the socket has been ended exactly once.
C4_OneCloseFrameAfterClose ==
    last.op = "close" => CloseFramesWritten(ch) = 1 /\ ch.ended = 1

\* C4, amended: close() on a closed channel changes nothing; a close() on
\* an open channel writes one close frame and ends the socket once; at any
\* time at most one close frame was written and the socket ended as often.
C4_CloseIdempotent ==
    /\ last.op = "close" /\ pre.closed => ch = pre
    /\ last.op = "close" /\ ~pre.closed =>
          /\ CloseFramesWritten(ch) = 1
          /\ ch.ended = 1
          /\ Len(NewWrites) = 1
          /\ Len(NewEvents) = 1
    /\ CloseFramesWritten(ch) <= 1
    /\ ch.ended = CloseFramesWritten(ch)

\* C4's case: close() called on a channel an earlier close() had closed.
C4_Witness ==
    last.op = "close" /\ pre.closed /\ pre.ended = 1 /\ CloseFramesWritten(ch) = 1

\* The payloads of the frames of the message in progress, in arrival order.
TrainPayload == Flatten([i \in 1..Len(train) |-> train[i].payload])

TrainType == Opname(train[1].opcode)

\* The last frame completed a message of two or more frames.
TrainCompleted ==
    /\ Dispatched
    /\ Len(train) >= 2
    /\ last.frame = Last(train)
    /\ last.frame.opcode = 0
    /\ last.frame.isFinal

\* The last frame is a non-final frame of a message in progress.
TrainOpen ==
    /\ Dispatched
    /\ train # <<>>
    /\ last.frame = Last(train)
    /\ last.frame.opcode \in {0, 1, 2}
    /\ ~last.frame.isFinal

\* C5: a non-final text or binary frame, then non-final continuations, then
\* a final continuation: the final frame emits the one "message" of the
\* sequence, the concatenated payloads decoded by the first frame's type,
\* and leaves inputBuffer empty and inputPending false; the frames before
\* it emit no "message".
C5_Reassembly ==
    /\ TrainCompleted =>
          /\ NamedEvents(NewEvents, "message") =
                <<Ev("message",
                     IF TrainType = "text" THEN Utf8Encode(TrainPayload) ELSE TrainPayload,
                     TrainType, NoCode)>>
          /\ ch.inputBuffer = <<>>
          /\ ~ch.inputPending
    /\ TrainOpen =>
          /\ NamedEvents(NewEvents, "message") = <<>>
          /\ ch.inputPending
          /\ ch.inputBuffer = TrainPayload

\* C5's case: a text message whose one code point is split over two frames,
\* delivered as that code point.
C5_Witness ==
    /\ TrainCompleted
    /\ TrainType = "text"
    /\ TrainPayload = <<195, 169>>
    /\ NewEvents = <<Ev("message", <<233>>, "text", NoCode)>>

\* C6: a text or binary frame arriving while inputPending is true first
\* emits "incomplete-message" with the stale buffer and its type, and the
\* stale bytes are not part of the new message.
C6_IncompleteSignalled ==
    Dispatched /\ last.frame.opcode \in {1, 2} /\ pre.inputPending =>
        /\ NewEvents # <<>>
        /\ NewEvents[1] = Ev("incomplete-message", pre.inputBuffer, pre.inputType, NoCode)
        /\ ch.inputBuffer = (IF last.frame.isFinal THEN <<>> ELSE last.frame.payload)

PongFrame == [frame |-> <<138, 0>>, promise |-> 0]

PingEvent == Ev("ping", <<>>, "", NoCode)

PongEvent == Ev("pong", <<>>, "", NoCode)

InputUntouched ==
    /\ ch.inputBuffer = pre.inputBuffer
    /\ ch.inputType = pre.inputType
    /\ ch.inputPending = pre.inputPending
    /\ ch.outputBuffer = pre.outputBuffer

\* C7 as stated: a ping frame on an open channel emits one "ping" and writes
\* one empty pong frame; a pong frame emits one "pong" and writes nothing.
C7_PingAlwaysAnswered ==
    /\ Dispatched /\ last.frame.opcode = 9 =>
          NewEvents = <<PingEvent>> /\ NewWrites = <<PongFrame>> /\ InputUntouched
    /\ Dispatched /\ last.frame.opcode = 10 =>
          NewEvents = <<PongEvent>> /\ NewWrites = <<>> /\ InputUntouched

\* C7, amended: as stated while the channel stays open; when a listener of
\* the observation closes the channel, the only write is close()'s frame and
\* no pong frame is written.
C7_PingAnsweredUnlessClosed ==
    /\ Dispatched /\ last.frame.opcode = 9 =>
          /\ NamedEvents(NewEvents, "ping") = <<PingEvent>>
          /\ NewEvents[1] = PingEvent
          /\ InputUntouched
          /\ IF ch.closed
             THEN Len(NewEvents) = 2 /\ NewEvents[2].name = "close"
                  /\ Len(NewWrites) = 1 /\ NewWrites[1].frame[1] = 136
             ELSE NewEvents = <<PingEvent>> /\ NewWrites = <<PongFrame>>
    /\ Dispatched /\ last.frame.opcode = 10 =>
          /\ NamedEvents(NewEvents, "pong") = <<PongEvent>>
          /\ NewEvents[1] = PongEvent
          /\ InputUntouched
          /\ IF ch.closed
             THEN Len(NewEvents) = 2 /\ NewEvents[2].name = "close"
                  /\ Len(NewWrites) = 1 /\ NewWrites[1].frame[1] = 136
             ELSE NewEvents = <<PongEvent>> /\ NewWrites = <<>>

\* C7's case: a ping answered by a pong while a message is in progress.
C7_Witness ==
    /\ Dispatched
    /\ last.frame.opcode = 9
    /\ ~ch.closed
    /\ pre.inputPending
    /\ pre.inputBuffer # <<>>
    /\ NewWrites = <<PongFrame>>


\* The sockets answered 101 so far.
Upgraded(s) == {s.responses[i].socket : i \in {j \in 1..Len(s.responses) : s.responses[j].status = 101}}

InTable(s, socket) == \E i \in 1..Len(s.channels) : s.channels[i].socket = socket

\* The last request was answered with this status.
Answered(status) ==
    /\ lastSrv.op = "request"
    /\ srv.responses = Append(preSrv.responses,
                              [socket |-> lastSrv.socket, status |-> status,
                               accept |-> IF status = 101
                                          THEN WsHandshake(lastSrv.request.key) ELSE <<>>])

\* C8: isConnected(socket) is false for a socket never upgraded, true right
\* after the 101 answer for it, and false once its Channel has closed.
C8_IsConnectedFollowsChannel ==
    \A socket \in Sockets :
        /\ socket \notin Upgraded(srv) => ~IsConnected(srv, socket)
        /\ Answered(101) /\ lastSrv.socket = socket => IsConnected(srv, socket)
        /\ \A i \in 1..Len(srv.channels) :
              srv.channels[i].socket = socket /\ srv.channels[i].channel.closed
                 => ~IsConnected(srv, socket)

\* C9: between events every Channel of the table is open and has the
\* Server's listeners attached, and the Server re-emits nothing for a
\* channel after re-emitting its "close".
C9_ClosedChannelsLeaveTable ==
    /\ \A i \in 1..Len(srv.channels) :
          ~srv.channels[i].channel.closed /\ srv.channels[i].channel.listeners
    /\ lastSrv.op \in {"frame", "close"} =>
          LET new == DropFirst(srv.emitted, Len(preSrv.emitted))
          IN \A i \in 1..Len(new) : new[i].name = "close" => i = Len(new)

\* C10: a request on a listening server is answered 400 and changes
\* nothing when it is no handshake, is ignored when it is a handshake on a
\* socket of the table, and is otherwise answered 101 and adds one new
\* Channel for its socket to the table; no socket is in the table twice.
C10_RequestOutcomes ==
    /\ lastSrv.op = "request" /\ preSrv.listening =>
          LET request == lastSrv.request
              had     == InTable(preSrv, request.socket)
          IN /\ ~IsHandshake(request) =>
                   /\ Answered(400)
                   /\ srv.channels = preSrv.channels
                   /\ srv.created = preSrv.created
             /\ IsHandshake(request) /\ had => srv = preSrv
             /\ IsHandshake(request) /\ ~had =>
                   /\ Answered(101)
                   /\ srv.created = preSrv.created + 1
                   /\ Len(srv.channels) = Len(preSrv.channels) + 1
                   /\ Front(srv.channels) = preSrv.channels
                   /\ Last(srv.channels).socket = request.socket
    /\ \A i, j \in 1..Len(srv.channels) :
          srv.channels[i].socket = srv.channels[j].socket => i = j

\* C10's case: a handshake on a socket that has a Channel, ignored, after
\* a request answered 400.
C10_Witness ==
    /\ lastSrv.op = "request"
    /\ preSrv.listening
    /\ IsHandshake(lastSrv.request)
    /\ InTable(preSrv, lastSrv.socket)
    /\ srv = preSrv
    /\ \E i \in 1..Len(srv.responses) : srv.responses[i].status = 400


\* The one frame that holds all of message data.
WholeFrame(data) ==
    WsEncodeFrame([payload |-> IF data.type = "string"
                               THEN Utf8Decode(data.content) ELSE data.content,
                   isFinal |-> TRUE,
                   opcode  |-> IF data.type = "string" THEN 1 ELSE 2])

\* C11: Server.send(data) appends the same frames, the message encoded once
\* whatever each channel's maxSize, to the outputBuffer of every open
\* Channel of the table, and changes no closed Channel and no other part
\* of the table.
C11_BroadcastOnce ==
    lastSrv.op = "send" =>
        /\ Len(srv.channels) = Len(preSrv.channels)
        /\ \A i \in 1..Len(preSrv.channels) :
              LET c  == preSrv.channels[i].channel
                  c2 == srv.channels[i].channel
              IN /\ srv.channels[i].socket = preSrv.channels[i].socket
                 /\ c.closed => c2 = c
                 /\ ~c.closed =>
                       /\ c2.outputBuffer = c.outputBuffer \o <<WholeFrame(lastSrv.data)>>
                       /\ c2.written = c.written
                       /\ c2.maxSize = c.maxSize

\* C11's case: a message of two bytes broadcast to two open channels, one
\* of them with a maxSize of one byte.
C11_Witness ==
    /\ lastSrv.op = "send"
    /\ Len(lastSrv.data.content) = 2
    /\ Len(srv.channels) = 2
    /\ \A i \in 1..2 : ~srv.channels[i].channel.closed
    /\ srv.channels[1].channel.maxSize = 1
    /\ srv.channels[2].channel.maxSize # 1
    /\ srv.channels[1].channel.outputBuffer = srv.channels[2].channel.outputBuffer
    /\ srv.channels[1].channel.outputBuffer # <<>>


\* The last step ran Server.close() up to super.close().
ReachedShutdown ==
    lastSrv.op \in {"shutdown", "ended"} /\ srv.closing = "shutdown"

\* C12: when Server.close() reaches the shutdown of the listening socket,
\* having closed the channels one at a time and awaited each socket's end,
\* the channels table is empty.
C12_TableEmptyAtShutdown ==
    ReachedShutdown => srv.channels = <<>>


\* C15: when the peer terminates the socket of an open Channel of the
\* table, the Server re-emits the channel's "close" and the channel leaves
\* the table.
C15_AbruptCloseSurfaced ==
    lastSrv.op = "end" /\ ~MapGet(preSrv.channels, lastSrv.socket).closed =>
        /\ ~InTable(srv, lastSrv.socket)
        /\ srv.emitted = Append(preSrv.emitted,
                                SrvEv("close", MapGet(preSrv.channels, lastSrv.socket).id,
                                      lastSrv.socket))


\* C17: each Channel is given an id greater than the id of every Channel
\* upgraded before it, so the Channels of the table have different ids.
C17_IdsMonotonic ==
    LET opens == NamedEvents(srv.emitted, "open")
    IN /\ \A i, j \in 1..Len(opens) : i < j => opens[i].id < opens[j].id
       /\ \A i, j \in 1..Len(srv.channels) :
             srv.channels[i].channel.id = srv.channels[j].channel.id => i = j


\* C16: a data frame whose payload is longer than the channel's maxSize is
\* not handled like a frame within the limit: the channel signals it (an
\* observation other than "message", or the close of the channel), or else
\* takes no byte of it into inputBuffer and delivers no "message".
C16_OversizeNotOrdinary ==
    Dispatched /\ Len(last.frame.payload) > pre.maxSize =>
        \/ ch.closed
        \/ \E i \in 1..Len(NewEvents) :
              NewEvents[i].name \notin {"message", "incomplete-message"}
        \/ /\ NamedEvents(NewEvents, "message") = <<>>
           /\ ch.inputBuffer = pre.inputBuffer


\* The writes whose completion callback has fired: the socket completes
\* its writes in the order they were handed over.
Completed(c) == 1..(Len(c.written) - Len(c.inflight))

\* C14: a close frame is handed to the socket, and the socket ended, only
\* when every write the send pump started before it has completed.
C14_CloseAfterWriteInFlight ==
    \A j \in 1..Len(ch.written) :
        ch.written[j].frame[1] = 136 =>
            \A i \in 1..(j - 1) : ch.written[i].promise # 0 => i \in Completed(ch)


\* The bytes of the message given to encode.
MessageBytes(message) ==
    IF message.type = "string" THEN Utf8Decode(message.content) ELSE message.content

\* C13: encode(message, N) with N >= 1 returns one frame or more, each
\* with at most N payload bytes and its length byte right; the first frame
\* has opcode 1 for a string and 2 for bytes, the later ones opcode 0;
\* the FIN bit is set on the last frame and on no other; the payloads in
\* order are the bytes of the message.
C13_Fragmentation ==
    stage = "packed" /\ arg.maxSize >= 1 =>
        /\ Len(packed) >= 1
        /\ \A i \in 1..Len(packed) :
              /\ Len(packed[i]) - 2 <= arg.maxSize
              /\ packed[i][2] = Len(packed[i]) - 2
              /\ packed[i][1] % 128 =
                    (IF i > 1 THEN 0 ELSE IF arg.message.type = "string" THEN 1 ELSE 2)
              /\ (packed[i][1] >= 128) <=> (i = Len(packed))
        /\ Flatten([i \in 1..Len(packed) |-> DropFirst(packed[i], 2)])
              = MessageBytes(arg.message)

\* C13's case: a string cut into three frames or more, one cut falling
\* inside the two bytes of a code point.
C13_Witness ==
    /\ stage = "packed"
    /\ arg.message.type = "string"
    /\ arg.maxSize = 1
    /\ Len(packed) >= 3
    /\ \E i \in 1..(Len(packed) - 1) :
          DropFirst(packed[i], 2) = <<195>> /\ DropFirst(packed[i + 1], 2) = <<169>>


\* Numeric equality of two integers, whatever their types.
SameInteger(a, b) ==
    /\ a.t \in {"Number", "BigInt"}
    /\ b.t \in {"Number", "BigInt"}
    /\ a.neg = b.neg
    /\ a.data = b.data

\* Whether v lies in [-(2^63) + 1, 2^64 - 1].
InFixedRange(v) ==
    IF v.neg THEN MagLeq(v.data, MaxInt(8)) ELSE MagLeq(v.data, Ones(8))

\* Whether the integer type of this tag has room for v.
TagHolds(tag, v) ==
    LET width == BytesPerElement[((tag - 8) % 4) + 1]
    IN /\ tag \in 8..15
       /\ tag < 12 => ~v.neg /\ Len(v.data) <= width
       /\ tag >= 12 => MagLeq(v.data, MaxInt(width)) \/ (v.neg /\ v.data = <<128>> \o Zeros(width - 1))

\* C18: unpack(pack(v)) is a one-element array holding the same constant
\* for each of the eight constants and a numerically equal integer for an
\* integer v; pack stores an integer of [-(2^63) + 1, 2^64 - 1] under one
\* of the tags 8 to 15 whose type has room for it, and any other integer
\* under tag 27 when it is not negative and 28 when it is.
C18_IntegerRoundTrip ==
    stage = "unpacked" =>
        LET v == arg[1]
        IN /\ ~unpacked.error
           /\ unpacked.length = 1
           /\ Len(unpacked.args) = 1
           /\ IF v \in ConstValues THEN unpacked.args[1] = v
              ELSE /\ SameInteger(unpacked.args[1], v)
                   /\ IF InFixedRange(v) THEN TagHolds(packed[9], v)
                      ELSE packed[9] = (IF v.neg THEN 28 ELSE 27)


\* What unpackValue makes of the bytes packValue produced for v alone.
Decoding(v) == UnpackValue(PackValue(v))

\* C19: the first eight bytes of pack(...args) are args.length in
\* big-endian order; unpack(pack(...args)) has args.length entries, entry i
\* being the decoding of args[i]; and unpackValue reports for each entry
\* as many bytes consumed as packValue produced for it.
C19_CountAndEntries ==
    stage = "unpacked" =>
        /\ SubSeq(packed, 1, 5) = Zeros(5)
        /\ packed[6] * 65536 + packed[7] * 256 + packed[8] = Len(arg)
        /\ ~unpacked.error
        /\ unpacked.length = Len(arg)
        /\ Len(unpacked.args) = Len(arg)
        /\ \A i \in 1..Len(arg) :
              /\ ~Decoding(arg[i]).error
              /\ Decoding(arg[i]).size = Len(PackValue(arg[i]))
              /\ unpacked.args[i] = Decoding(arg[i]).value


\* C20: unpack throws on the empty input, on an input that ends before
\* the entries its count prefix announces, and on an input with an entry
\* whose tag is no type's.
C20_MalformedThrows ==
    stage = "unpacked" /\ arg.class \in {"empty", "truncated", "tag"} => unpacked.error

\* ------------------------------------------------- the close frame's spec

\* The close codes the application passes to close(): none (0), the ends
\* of the 16-bit range, codes with one byte zero, and one above the range.
CallCodes == {0, 1, 255, 256, 1000, 65535, 66536}

\* What puts a close frame on the wire: a close(code, reason) of the peer's
\* Channel, or a peer that writes the payload itself.
CloseCalls ==
    [kind : {"call"}, code : CallCodes, reason : SeqsUpTo({65, 233}, MaxLen),
     payload : {<<>>}]
    \cup [kind : {"raw"}, code : {0}, reason : {<<>>},
          payload : {<<>>, <<3>>, <<3, 232>>, <<0, 0>>, <<255, 255, 65>>,
                     <<3, 233, 195, 169>>, <<3, 234, 195>>}]

InitCloseFrame ==
    /\ Fresh
    /\ arg \in CloseCalls
    /\ stage = "input"
    /\ packed = <<>>
    /\ unpacked = <<>>

\* The peer's close(code, reason) on its own fresh Channel: packed is the
\* frame it wrote to the socket.
PeerClose ==
    /\ stage = "input"
    /\ arg.kind = "call"
    /\ packed' = Close(NewChannel(FALSE), arg.code, arg.reason).written[1].frame
    /\ stage' = "packed"
    /\ UNCHANGED <<arg, unpacked, steps>>
    /\ UNCHANGED chanVars
    /\ UNCHANGED srvVars

\* The peer writes a close frame with a payload of its own making.
PeerWrite ==
    /\ stage = "input"
    /\ arg.kind = "raw"
    /\ packed' = WsEncodeFrame([opcode |-> 8, isFinal |-> TRUE, payload |-> arg.payload])
    /\ stage' = "packed"
    /\ UNCHANGED <<arg, unpacked, steps>>
    /\ UNCHANGED chanVars
    /\ UNCHANGED srvVars

\* The socket's "data" listener hands the frame to readBytes.
ReceiveClose ==
    /\ stage = "packed"
    /\ pre' = ch
    /\ ch' = ReadBytes(ch, packed, "")
    /\ last' = Op("recv", WsDecodeFrame(packed))
    /\ stage' = "unpacked"
    /\ UNCHANGED <<arg, packed, unpacked, steps, submitted, train>>
    /\ UNCHANGED srvVars

NextCloseFrame == PeerClose \/ PeerWrite \/ ReceiveClose

SpecCloseFrame == InitCloseFrame /\ [][NextCloseFrame]_vars

\* The payload of the close frame on the wire.
WirePayload == DropFirst(packed, 2)

\* C21: a close frame received on an open channel closes it and emits
\* exactly one "close": without arguments when the payload is empty, and
\* otherwise with the code 256 * payload[0] + payload[1] and the payload's
\* remaining bytes as the reason; the frame close(code, reason) writes for
\* a code in 1..65535 is received as that code and that reason.
C21_CloseFrameDecoded ==
    stage = "unpacked" =>
        /\ ch.closed
        /\ Len(ch.emitted) = 1
        /\ ch.emitted[1].name = "close"
        /\ ch.written = <<>>
        /\ WirePayload = <<>> =>
              ch.emitted[1].code = NoCode /\ ch.emitted[1].data = <<>>
        /\ Len(WirePayload) >= 2 =>
              /\ ch.emitted[1].code = 256 * WirePayload[1] + WirePayload[2]
              /\ Len(WirePayload) = 2 => ch.emitted[1].data = <<>>
              /\ Len(WirePayload) > 2 /\ arg.kind = "call" =>
                    Utf8Decode(ch.emitted[1].data) = DropFirst(WirePayload, 2)
        /\ arg = [kind |-> "raw", code |-> 0, reason |-> <<>>,
                  payload |-> <<3, 233, 195, 169>>] =>
              ch.emitted[1].data = <<233>>
        /\ arg.kind = "call" /\ arg.code \in 1..65535 =>
              ch.emitted[1].code = arg.code /\ ch.emitted[1].data = arg.reason

\* A close(1000, "Aé") of the peer has been received.
C21_Witness ==
    /\ stage = "unpacked"
    /\ arg.kind = "call"
    /\ arg.code = 1000
    /\ arg.reason = <<65, 233>>
    /\ WirePayload = <<3, 232, 65, 195, 169>>
    /\ ch.closed
    /\ ch.emitted = <<Ev("close", <<65, 233>>, "", 1000)>>

\* ------------------------------------------------------ continuation frames

\* The last frame dispatched to an open channel is a continuation frame.
ContinuationDispatched == Dispatched /\ last.frame.opcode = 0

\* C22: a continuation frame that arrives while inputPending is false is
\* dropped, final or not: nothing is emitted or written and the channel is
\* as it was.  One that arrives while inputPending is true is appended to
\* the end of inputBuffer (which a final frame then delivers as the
\* message and clears) and leaves inputType as it was.
C22_ContinuationGuard ==
    ContinuationDispatched =>
        IF ~pre.inputPending
        THEN /\ NewEvents = <<>>
             /\ NewWrites = <<>>
             /\ InputUntouched
             /\ ch = pre
        ELSE /\ ch.inputType = pre.inputType
             /\ NewWrites = (IF ch.closed
                             THEN <<[frame |-> <<136, 2, 3, 232>>, promise |-> 0]>>
                             ELSE <<>>)
             /\ IF last.frame.isFinal
                THEN /\ NamedEvents(NewEvents, "message") =
                           <<Ev("message",
                                IF pre.inputType = "text"
                                THEN Utf8Encode(pre.inputBuffer \o last.frame.payload)
                                ELSE pre.inputBuffer \o last.frame.payload,
                                pre.inputType, NoCode)>>
                     /\ NewEvents[1].name = "message"
                     /\ ch.inputBuffer = <<>>
                     /\ ~ch.inputPending
                ELSE /\ NewEvents = <<>>
                     /\ ch.inputBuffer = pre.inputBuffer \o last.frame.payload
                     /\ ch.inputPending

\* A final continuation frame with a payload reached an open channel that
\* had delivered a message and was expecting no continuation.
C22_Witness ==
    /\ ContinuationDispatched
    /\ ~pre.inputPending
    /\ last.frame.isFinal
    /\ last.frame.payload = <<169>>
    /\ Len(NamedEvents(pre.emitted, "message")) = 1
    /\ ch = pre

\* ------------------------------------------------------- the chunks' spec

\* The frames of the streams the socket delivers in chunks: the two halves
\* of a text message, a whole binary message, a ping and a close frame.
ChunkFrames ==
    {[opcode |-> 1, isFinal |-> FALSE, payload |-> <<195>>],
     [opcode |-> 0, isFinal |-> TRUE,  payload |-> <<169>>],
     [opcode |-> 2, isFinal |-> TRUE,  payload |-> <<1, 2>>],
     [opcode |-> 9, isFinal |-> TRUE,  payload |-> <<>>],
     [opcode |-> 8, isFinal |-> TRUE,  payload |-> <<>>]}

\* A stream is one to MaxFrames complete frames; h names the event whose
\* listener calls close(), if any.
ChunkStreams ==
    [frames  : SeqsUpTo(ChunkFrames, MaxFrames) \ {<<>>},
     handler : {"none", "message"}]

\* The bytes of a sequence of frames.
StreamBytes(frames) == Flatten([i \in 1..Len(frames) |-> WsEncodeFrame(frames[i])])

\* arg is the stream, packed the bytes the socket has not delivered yet,
\* unpacked the channel that was handed the whole stream in one call, train
\* the frames readBytes has handed to readFrame.
InitChunks ==
    /\ Fresh
    /\ arg \in ChunkStreams
    /\ stage = "input"
    /\ packed = StreamBytes(arg.frames)
    /\ unpacked = <<>>

\* One readBytes call with the whole stream, on a channel of its own.
ReadWhole ==
    /\ stage = "input"
    /\ unpacked' = ReadBytes(NewChannel(FALSE), packed, arg.handler)
    /\ stage' = "chunks"
    /\ UNCHANGED <<arg, packed, steps>>
    /\ UNCHANGED chanVars
    /\ UNCHANGED srvVars

\* The socket's "data" event with the next n bytes of the stream.
ReadChunk(n) ==
    /\ stage = "chunks"
    /\ n <= Len(packed)
    /\ ch' = ReadBytes(ch, SubSeq(packed, 1, n), arg.handler)
    /\ pre' = ch
    /\ last' = Op("chunk", NoFrame)
    /\ train' = IF ch.closed THEN train
                ELSE train \o Decode(Buffered(ch, SubSeq(packed, 1, n))).frames
    /\ packed' = DropFirst(packed, n)
    /\ UNCHANGED <<arg, stage, unpacked, steps, submitted>>
    /\ UNCHANGED srvVars

NextChunks ==
    \/ ReadWhole
    \/ \E n \in 1..(4 * MaxFrames) : ReadChunk(n)

SpecChunks == InitChunks /\ [][NextChunks]_vars

\* The frames of the stream as decode returns them.
StreamFrames ==
    [i \in 1..Len(arg.frames) |->
        [opcode  |-> arg.frames[i].opcode,
         opname  |-> Opname(arg.frames[i].opcode),
         isFinal |-> arg.frames[i].isFinal,
         length  |-> Len(arg.frames[i].payload),
         payload |-> arg.frames[i].payload,
         trailer |-> <<>>]]

IsPrefix(s, t) == Len(s) <= Len(t) /\ s = SubSeq(t, 1, Len(s))

IsSuffix(s, t) == Len(s) <= Len(t) /\ s = SubSeq(t, Len(t) - Len(s) + 1, Len(t))

\* The last chunk of the stream has been delivered.
ChunksDone == stage = "chunks" /\ packed = <<>> /\ last.op = "chunk"

\* C23: however a stream of complete frames is cut into the chunks of
\* successive readBytes calls, the observations, the writes and the message
\* in progress end up as after one call with the whole stream; while the
\* channel is open the frames handed to readFrame are a prefix of the
\* stream's frames, frameBuffer holds no complete frame and is, with the
\* bytes still to come, the rest of the stream from a frame's first byte;
\* when the last call found the channel open every frame was dispatched and
\* frameBuffer is empty.
C23_ChunkingIndependence ==
    /\ stage = "chunks" =>
          /\ IsPrefix(ch.emitted, unpacked.emitted)
          /\ IsPrefix(ch.written, unpacked.written)
          /\ IsPrefix(train, StreamFrames)
          /\ ~ch.closed =>
                /\ Decode(ch.frameBuffer).frames = <<>>
                /\ ch.frameBuffer \o packed =
                      StreamBytes(SubSeq(arg.frames, Len(train) + 1, Len(arg.frames)))
    /\ ChunksDone =>
          /\ ch.emitted = unpacked.emitted
          /\ ch.written = unpacked.written
          /\ ch.closed = unpacked.closed
          /\ ch.inputBuffer = unpacked.inputBuffer
          /\ ch.inputType = unpacked.inputType
          /\ ch.inputPending = unpacked.inputPending
          /\ ~pre.closed =>
                /\ train = StreamFrames
                /\ ch.frameBuffer = <<>>
                /\ ch = unpacked

\* A text message of two frames and a ping arrived in chunks that cut
\* through the second frame: its first byte waited in frameBuffer.
C23_Witness ==
    /\ ChunksDone
    /\ arg.frames = <<[opcode |-> 1, isFinal |-> FALSE, payload |-> <<195>>],
                      [opcode |-> 0, isFinal |-> TRUE,  payload |-> <<169>>],
                      [opcode |-> 9, isFinal |-> TRUE,  payload |-> <<>>]>>
    /\ pre.frameBuffer = <<128>>
    /\ pre.inputPending
    /\ ch.frameBuffer = <<>>
    /\ ch.emitted = <<Ev("message", <<233>>, "text", NoCode), Ev("ping", <<>>, "", NoCode)>>
    /\ ch = unpacked

\* ------------------------------------------------- the typed arrays' spec

\* The typed array of element type kind (0 Uint8Array .. 9 Float64Array, the
\* order of packValue's list) with n elements: its buffer's bytes are
\* 1, 2, 3, ...
ArrayOf(kind, n) ==
    Val("TypedArray", FALSE, [i \in 1..(n * BytesPerElement[kind + 1]) |-> i], kind)

TypedArrays == {ArrayOf(kind, n) : kind \in 0..9, n \in 0..MaxElems}

\* The arguments that follow the typed array, if any.
RestArgs ==
    {<<>>, <<Const("null")>>, <<Val("Number", FALSE, <<1>>, 0)>>,
     <<Val("String", FALSE, <<97>>, 0)>>}

\* pack and unpack of a typed array and what follows it.
InitPackArray ==
    /\ Fresh
    /\ arg \in {<<a>> \o rest : a \in TypedArrays, rest \in RestArgs}
    /\ stage = "input"
    /\ packed = <<>>
    /\ unpacked = <<>>

SpecPackArray == InitPackArray /\ [][NextPack]_vars

\* The number of elements of a typed array.
ElementCount(v) == Len(v.data) \div BytesPerElement[v.kind + 1]

\* C24: a typed array of any of the ten element types, alone or followed by
\* further arguments, comes back from unpack(pack(...)) in position 0 with
\* its element type, length and values, followed by the decodings of the
\* other arguments; the 8-byte field after its tag holds its element count.
C24_TypedArrayRoundTrip ==
    stage = "unpacked" =>
        /\ Uint64Value(SubSeq(packed, 10, 17)) = ElementCount(arg[1])
        /\ ~unpacked.error
        /\ unpacked.length = Len(arg)
        /\ Len(unpacked.args) = Len(arg)
        /\ unpacked.args[1] = arg[1]
        /\ \A i \in 2..Len(arg) : unpacked.args[i] = Decoding(arg[i]).value

\* ------------------------------------------- the send pump's fair spec

\* The channel is never closed, promise jobs run as soon as they are
\* queued, and the socket completes every write it was given: those of the
\* pump and, here, those of ping().  The application lowers maxSize to 1
\* so that sends append several frames at once.
NextPump ==
    \/ \E data \in Messages : DoSend(data)
    \/ \E to \in {1} : DoSetMaxSize(to)
    \/ DoPing
    \/ DoMicrotask
    \/ DoWriteDone

SpecPump ==
    /\ Init
    /\ [][NextPump]_vars
    /\ WF_vars(DoMicrotask)
    /\ WF_vars(DoWriteDone)

\* No sendNext() is suspended or about to run, and no write is in flight.
PumpIdle ==
    /\ ch.microtasks = <<>>
    /\ ch.waiters = <<>>
    /\ ch.inflight = <<>>

\* Every frame send() appended has been handed to socket.write, in order.
AllWritten == ch.outputBuffer = <<>> /\ PumpFrames(ch) = submitted

\* C25: on a channel that is never closed and whose socket completes
\* every write, a frame waiting in outputBuffer does not wait for ever, and
\* the pump comes to rest with outputBuffer empty and every frame send()
\* appended handed to socket.write, in order: no frame is left queued with
\* no sendNext() to write it.
C25_PumpDrains ==
    /\ (ch.outputBuffer # <<>>) ~> (ch.outputBuffer = <<>>)
    /\ <>[](PumpIdle /\ AllWritten)

\* Five or more frames, appended by sends that overlapped the pump's
\* writes, have all been written and the pump is at rest.
C25_Witness ==
    /\ ~ch.closed
    /\ Len(submitted) >= 5
    /\ steps = MaxSends
    /\ PumpIdle
    /\ AllWritten

\* ------------------------------------------------- the reassembly buffer

\* The "incomplete-message" observations of the last operation.
NewIncomplete == NamedEvents(NewEvents, "incomplete-message")

\* C26: between dispatches inputBuffer is empty whenever inputPending is
\* false, and "incomplete-message" is emitted only for a message that was
\* still in progress: at most once per frame, with the bytes buffered for
\* it, never after that message was completed and delivered.
C26_BufferFollowsPending ==
    /\ ~ch.inputPending => ch.inputBuffer = <<>>
    /\ Len(NewIncomplete) <= 1
    /\ NewIncomplete # <<>> =>
          /\ Dispatched
          /\ last.frame.opcode \in {1, 2}
          /\ pre.inputPending
          /\ pre.inputBuffer # <<>>
          /\ NewIncomplete[1].data = pre.inputBuffer
          /\ NewEvents[1] = NewIncomplete[1]

\* After one message was delivered and the first frame of another was
\* buffered, a whole text message arrived: the buffered bytes were reported
\* incomplete, the new message delivered, and the buffer is empty again.
C26_Witness ==
    /\ Dispatched
    /\ last.frame = [opcode |-> 1, isFinal |-> TRUE, payload |-> <<>>]
    /\ Len(NamedEvents(pre.emitted, "message")) = 1
    /\ pre.inputPending
    /\ pre.inputBuffer = <<195>>
    /\ NewIncomplete = <<Ev("incomplete-message", <<195>>, pre.inputType, NoCode)>>
    /\ Len(NamedEvents(NewEvents, "message")) = 1
    /\ ~ch.inputPending
    /\ ch.inputBuffer = <<>>

\* ------------------------------------------------------ reserved opcodes

\* C27: "message" is emitted only by the dispatch of a final text frame, a
\* final binary frame or a final continuation frame that was expected; a
\* frame with a reserved non-control opcode (3 to 7) emits nothing and
\* leaves the message in progress as it was.
C27_MessageOnlyFromDataFrames ==
    /\ NamedEvents(NewEvents, "message") # <<>> =>
          /\ Dispatched
          /\ last.frame.isFinal
          /\ \/ last.frame.opcode \in {1, 2}
             \/ last.frame.opcode = 0 /\ pre.inputPending
    /\ Dispatched /\ last.frame.opcode \in 3..7 =>
          /\ NewEvents = <<>>
          /\ InputUntouched

\* ------------------------------------------- the channels' lives' spec

\* The frames after which a listener may call close(), and the close frames.
LifeFrames ==
    {[opcode |-> 8, isFinal |-> TRUE, payload |-> <<>>],
     [opcode |-> 8, isFinal |-> TRUE, payload |-> <<3, 233, 65>>],
     [opcode |-> 9, isFinal |-> TRUE, payload |-> <<>>],
     [opcode |-> 1, isFinal |-> TRUE, payload |-> <<195>>]}

\* A Channel of the application's own and a Server with its channels: close
\* frames arrive, the application calls close(), listeners call close().
NextLife ==
    \/ \E f \in LifeFrames : \E h \in Handlers(f) : RecvFrame(f, h)
    \/ \E code \in CloseCodes : RecvClose(code)
    \/ SrvListen
    \/ \E s \in Sockets : \E closes \in BOOLEAN : SrvRequest(Handshake(s), closes)
    \/ \E s \in Sockets : \E f \in LifeFrames : \E h \in Handlers(f) : SrvFrame(s, f, h)
    \/ \E s \in Sockets : SrvChannelClose(s)

SpecLife == Init /\ [][NextLife]_vars

\* The number of "close" observations of channel c.
Closes(c) == Len(NamedEvents(c.emitted, "close"))

\* What the Server emitted about the channels of socket s: their "ws:open"
\* and "ws:close", in order.
SocketLife(s) ==
    SelectSeq(srv.emitted, LAMBDA e : e.socket = s /\ e.name \in {"open", "close"})

\* C28: a Channel emits "close" at most once in its life, however local
\* close() calls, received close frames and close() calls from inside
\* listeners interleave, and it has done so once when it is closed; the
\* Server re-emits at most one "ws:close" for each channel it opened.
C28_AtMostOneClose ==
    /\ Closes(ch) = (IF ch.closed THEN 1 ELSE 0)
    /\ \A s \in Sockets :
          /\ MapHas(srv.channels, s) =>
                Closes(MapGet(srv.channels, s)) =
                    (IF MapGet(srv.channels, s).closed THEN 1 ELSE 0)
          /\ \A i \in 1..Len(SocketLife(s)) :
                SocketLife(s)[i].name = (IF i % 2 = 1 THEN "open" ELSE "close")

\* The application's channel was closed by a received close frame and
\* close() was called on it afterwards; the Server's channel on socket 1
\* was closed by a listener and the peer's close frame came after that.
C28_Witness ==
    /\ last.op = "close"
    /\ pre.closed
    /\ ch.emitted = <<Ev("close", <<>>, "", NoCode)>>
    /\ ch.written = <<>>
    /\ [n \in 1..Len(SocketLife(1)) |-> SocketLife(1)[n].name] = <<"open", "close">>
    /\ ~MapHas(srv.channels, 1)
    /\ \E i \in 1..Len(srv.emitted) : srv.emitted[i].name = "message"

=============================================================================
